---- MODULE Spec2Model ----
(***************************************************************************)
(* The migration tools of pocketbase-mcp: the tool handlers of             *)
(* src/src/tools/collection-tools.ts (lines 196-351) over the migration    *)
(* engine they import from ../migrations/index.js.  The engine, the file   *)
(* system and the PocketBase backend are not part of the sources at hand;  *)
(* they are modelled from sections 3, 4 and 6 of the specification.        *)
(*                                                                         *)
(* A tool call is one action: argument validation, the engine call, the    *)
(* wrapping of an engine failure and the construction of the ToolResult;   *)
(* the registered callback's answer is the next.  SpecConcurrent takes a   *)
(* call apart at the engine's awaits, for requests handled together.       *)
(***************************************************************************)
EXTENDS Integers, Sequences, FiniteSets, TLC

VARIABLES
    migrationsDir,  \* the process-wide active directory: <<>> (never set) or <<path>>
    directories,    \* the directories that exist on the file system
    files,          \* the entries of those directories: [dir, name, ext, body]
    lastKey,        \* the naming engine's tie-break state: the last ordering key issued
    collections,    \* the backend: the set of collections [id, name, fields]
    calls,          \* the up/down invocations made by that tool call, in order
    last,           \* the tool call being answered: [tool, args, thrown, result]
    requests,       \* the tool calls suspended in the engine, by request
    reply           \* what the registered callback returns for the call in `last`

vars == <<migrationsDir, directories, files, lastKey, collections, calls, last,
          requests, reply>>

----------------------------------------------------------------------------
(* Bounds of the model. *)

\* The number of migration files the create tools may write in one behaviour
\* of Spec, where every tool is called with every kind of argument.
MaxFiles == 1
\* The same for SpecStore, where files are created and listed.
MaxListed == 3
\* The same for SpecLifecycle, where files are created, applied and reverted.
MaxBatch == 3
\* The same for SpecConcurrent, where requests are handled at the same time.
MaxQueued == 2
\* The same for SpecFiles, where every tool is called with complete arguments.
MaxKept == 2
\* The number of requests the server may be handling at the same time.
MaxRequests == 2

----------------------------------------------------------------------------
(* JavaScript values.  An optional argument is <<>> (undefined) or <<v>>.  *)
(* A string is a sequence of characters, so "" is <<>> and the argument "" *)
(* is << <<>> >>.  A file name is the sequence <<timestamp, counter, slug,  *)
(* extension>>, which is never empty.                                      *)

UNDEFINED == <<>>

Some(v) == <<v>>

\* `!x` for an optional string argument: undefined or the empty string.
Falsy(x) == x = UNDEFINED \/ x[1] = <<>>

\* `!x` for an optional object argument: a record with a `defined` flag.
FalsyObj(x) == ~x.defined

----------------------------------------------------------------------------
(* Naming engine (specification 4.1).                                      *)

LowerCase(c) ==
    CASE c = "A" -> "a"
      [] c = "P" -> "p"
      [] OTHER -> c

IsAlnum(c) ==
    c \in {"a", "b", "c", "d", "e", "f", "g", "h", "i", "j", "k", "l", "m",
           "n", "o", "p", "q", "r", "s", "t", "u", "v", "w", "x", "y", "z",
           "0", "1", "2", "3", "4", "5", "6", "7", "8", "9"}

\* Lowercase, every run of characters outside [a-z0-9] collapsed to one "_".
RECURSIVE Collapse(_)
Collapse(s) ==
    IF s = <<>> THEN <<>>
    ELSE LET c == LowerCase(Head(s))
             rest == Collapse(Tail(s))
         IN IF IsAlnum(c) THEN <<c>> \o rest
            ELSE IF rest # <<>> /\ Head(rest) = "_" THEN rest
            ELSE <<"_">> \o rest

TrimLeft(s) == IF s # <<>> /\ Head(s) = "_" THEN Tail(s) ELSE s

TrimRight(s) ==
    IF s # <<>> /\ s[Len(s)] = "_" THEN SubSeq(s, 1, Len(s) - 1) ELSE s

Slug(description) == TrimRight(TrimLeft(Collapse(description)))

\* The ordering key without the tie-break: the clock value alone.
NextKeyNoTieBreak(clock, previous) == <<clock, 0>>

\* The ordering key of the next file: the clock value and, while the clock has
\* not advanced past the last key issued, a counter that keeps the keys distinct.
NextKey(clock, previous) ==
    IF clock > previous[1] THEN <<clock, 0>> ELSE <<previous[1], previous[2] + 1>>

\* Lexicographic order of ordering keys.
KeyLess(a, b) == a[1] < b[1] \/ (a[1] = b[1] /\ a[2] < b[2])

\* A file name {orderingKey}_{slug}: <<timestamp, counter, slug>>.
FileName(key, slug) == <<key[1], key[2], slug>>

KeyOf(name) == <<name[1], name[2]>>

----------------------------------------------------------------------------
(* Directory resolver (specification 4.3).  A path is its sequence of      *)
(* segments; an absolute path starts with the empty segment.               *)

Cwd == <<"", "cwd">>

DefaultDir == Cwd \o <<"pb_migrations">>

IsAbsolute(path) == path # <<>> /\ path[1] = ""

\* The path made absolute against the working directory.
Resolve(path) == IF IsAbsolute(path) THEN path ELSE Cwd \o path

\* set(customPath?): the directory the setter stores and returns.
setMigrationsDirectory(customPath) ==
    IF customPath # UNDEFINED THEN Resolve(customPath[1]) ELSE DefaultDir

\* get(): the active directory, the default when none was ever set.
getMigrationsDirectory(stored) ==
    IF stored = <<>> THEN DefaultDir ELSE stored[1]

----------------------------------------------------------------------------
(* Migration store (specification 4.4).                                    *)

Ext == "js"

WithExt(base) == Append(base, Ext)

IsMigrationFile(name) == name[Len(name)] = Ext

\* The names of the entries of a directory.
Entries(fs, dir) == {f.name : f \in {g \in fs : g.dir = dir}}

\* Every order in which the file system may enumerate a set of names.
RECURSIVE Enumerations(_)
Enumerations(names) ==
    IF names = {} THEN {<<>>}
    ELSE UNION {{<<n>> \o e : e \in Enumerations(names \ {n})} : n \in names}

\* One of those orders.
RECURSIVE SomeEnumeration(_)
SomeEnumeration(names) ==
    IF names = {} THEN <<>>
    ELSE LET n == CHOOSE x \in names : TRUE
         IN <<n>> \o SomeEnumeration(names \ {n})

\* One name inserted into a sequence sorted ascending by ordering key.
RECURSIVE Insert(_, _)
Insert(name, sorted) ==
    IF sorted = <<>> THEN <<name>>
    ELSE IF KeyLess(KeyOf(name), KeyOf(Head(sorted))) THEN <<name>> \o sorted
    ELSE <<Head(sorted)>> \o Insert(name, Tail(sorted))

RECURSIVE SortAscending(_)
SortAscending(names) ==
    IF names = <<>> THEN <<>>
    ELSE Insert(names[Len(names)], SortAscending(SubSeq(names, 1, Len(names) - 1)))

Reverse(s) == [i \in 1..Len(s) |-> s[Len(s) + 1 - i]]

\* list(): the entries with the migration extension, ascending by ordering key.
listMigrations(enumeration) == SortAscending(SelectSeq(enumeration, IsMigrationFile))

----------------------------------------------------------------------------
(* The backend admin handle (specification 6) and the bodies the content   *)
(* generator renders (specification 4.2).                                  *)

EmptyBody == [kind |-> "empty"]

CollectionBody(definition) == [kind |-> "collection", definition |-> definition]

FieldBody(collection, field) ==
    [kind |-> "field", collection |-> collection, field |-> field]

Found(cols, nameOrId) == {c \in cols : c.id = nameOrId \/ c.name = nameOrId}

\* createCollection(definition): refused when the id or the name is taken.
createCollection(cols, definition) ==
    IF \E c \in cols : c.id = definition.id \/ c.name = definition.name
    THEN [ok |-> FALSE, cols |-> cols]
    ELSE [ok |-> TRUE,
          cols |-> cols \cup {[id |-> definition.id, name |-> definition.name,
                               fields |-> {}]}]

\* deleteCollection(id): refused when no collection has the id.
deleteCollection(cols, id) ==
    IF \E c \in cols : c.id = id
    THEN [ok |-> TRUE, cols |-> {c \in cols : c.id # id}]
    ELSE [ok |-> FALSE, cols |-> cols]

\* getCollection, then updateCollection with the field appended.
addField(cols, nameOrId, field) ==
    IF Found(cols, nameOrId) = {} THEN [ok |-> FALSE, cols |-> cols]
    ELSE LET c == CHOOSE x \in Found(cols, nameOrId) : TRUE
         IN IF field \in c.fields THEN [ok |-> FALSE, cols |-> cols]
            ELSE [ok |-> TRUE,
                  cols |-> (cols \ {c}) \cup {[c EXCEPT !.fields = @ \cup {field}]}]

\* getCollection, then updateCollection with the field removed by name.
removeField(cols, nameOrId, field) ==
    IF Found(cols, nameOrId) = {} THEN [ok |-> FALSE, cols |-> cols]
    ELSE LET c == CHOOSE x \in Found(cols, nameOrId) : TRUE
         IN [ok |-> TRUE,
             cols |-> (cols \ {c}) \cup {[c EXCEPT !.fields = @ \ {field}]}]

\* The `up` operation of a migration body.
Up(body, cols) ==
    CASE body.kind = "empty" -> [ok |-> TRUE, cols |-> cols]
      [] body.kind = "collection" -> createCollection(cols, body.definition)
      [] body.kind = "field" -> addField(cols, body.collection, body.field)

\* The `down` operation of a migration body.
Down(body, cols) ==
    CASE body.kind = "empty" -> [ok |-> TRUE, cols |-> cols]
      [] body.kind = "collection" -> deleteCollection(cols, body.definition.id)
      [] body.kind = "field" -> removeField(cols, body.collection, body.field)

\* One invocation against the backend; `broken` is a request the backend fails
\* for a reason of its own (unreachable, timed out).
Invoke(direction, body, cols, broken) ==
    IF broken THEN [ok |-> FALSE, cols |-> cols]
    ELSE IF direction = "up" THEN Up(body, cols) ELSE Down(body, cols)

----------------------------------------------------------------------------
(* Lifecycle executor (specification 4.5).  An engine call returns         *)
(* [ok, value, error, cols, invoked]: its value or the error it raises,    *)
(* the backend it leaves, and the up/down invocations it made, in order.   *)

Range(s) == {s[i] : i \in DOMAIN s}

NotFoundError(file) ==
    [kind |-> "NotFoundError",
     message |-> [what |-> "not found", file |-> file, processed |-> <<>>]]

MigrationExecutionError(direction, file, processed) ==
    [kind |-> "MigrationExecutionError",
     message |-> [what |-> direction, file |-> file, processed |-> processed]]

Exists(fs, dir, name) == \E f \in fs : f.dir = dir /\ f.name = name

BodyOf(fs, dir, name) == (CHOOSE f \in fs : f.dir = dir /\ f.name = name).body

Invocations(direction, names) == [i \in 1..Len(names) |-> <<names[i], direction>>]

\* apply / revert of one file: resolve it, then invoke its up / down.
Execute(direction, fileName, dir, fs, cols, broken) ==
    IF ~Exists(fs, dir, fileName)
    THEN [ok |-> FALSE, value |-> <<>>, error |-> NotFoundError(fileName),
          cols |-> cols, invoked |-> <<>>]
    ELSE LET r == Invoke(direction, BodyOf(fs, dir, fileName), cols, broken)
         IN IF r.ok
            THEN [ok |-> TRUE, value |-> <<direction, fileName>>, error |-> <<>>,
                  cols |-> r.cols, invoked |-> <<<<fileName, direction>>>>]
            ELSE [ok |-> FALSE, value |-> <<>>,
                  error |-> MigrationExecutionError(direction, fileName, <<>>),
                  cols |-> cols, invoked |-> <<<<fileName, direction>>>>]

applyMigration(fileName, dir, fs, cols, broken) ==
    Execute("up", fileName, dir, fs, cols, broken)

revertMigration(fileName, dir, fs, cols, broken) ==
    Execute("down", fileName, dir, fs, cols, broken)

\* A batch: the names one after the other, stopping at the first failure.
\* failAt is the position of the invocation the backend fails for a reason
\* of its own (0: none).
RECURSIVE RunBatch(_, _, _, _, _, _, _)
RunBatch(direction, names, dir, fs, cols, failAt, done) ==
    IF names = <<>>
    THEN [ok |-> TRUE, value |-> done, error |-> <<>>, cols |-> cols,
          invoked |-> Invocations(direction, done)]
    ELSE LET r == Invoke(direction, BodyOf(fs, dir, Head(names)), cols,
                         failAt = Len(done) + 1)
         IN IF r.ok
            THEN RunBatch(direction, Tail(names), dir, fs, r.cols, failAt,
                          Append(done, Head(names)))
            ELSE [ok |-> FALSE, value |-> <<>>,
                  error |-> MigrationExecutionError(direction, Head(names), done),
                  cols |-> cols,
                  invoked |-> Invocations(direction, Append(done, Head(names)))]

\* pending = list() - appliedSet, ascending.
Pending(enumeration, applied) ==
    SelectSeq(listMigrations(enumeration), LAMBDA n : n \notin Range(applied))

\* applyAll: the pending migrations, one after the other.
applyAllMigrations(enumeration, applied, dir, fs, cols, failAt) ==
    RunBatch("up", Pending(enumeration, applied), dir, fs, cols, failAt, <<>>)

\* revertToMigration: the candidates are the entries of appliedSet that list()
\* holds, descending; with a target, those of a key above the target's.
TargetAbsent(target, enumeration) ==
    target # <<>> /\ target \notin Range(listMigrations(enumeration))

Above(target, enumeration, applied) ==
    LET candidates == Reverse(SelectSeq(listMigrations(enumeration),
                                        LAMBDA n : n \in Range(applied)))
    IN IF target = <<>> THEN candidates
       ELSE SelectSeq(candidates, LAMBDA n : KeyLess(KeyOf(target), KeyOf(n)))

revertToMigration(target, enumeration, applied, dir, fs, cols, failAt) ==
    IF TargetAbsent(target, enumeration)
    THEN [ok |-> FALSE, value |-> <<>>, error |-> NotFoundError(target),
          cols |-> cols, invoked |-> <<>>]
    ELSE RunBatch("down", Above(target, enumeration, applied), dir, fs, cols,
                  failAt, <<>>)

----------------------------------------------------------------------------
(* Content generator (specification 4.2): the description a file is named  *)
(* after and the body written.  A generator refuses a definition that      *)
(* lacks a required property.                                              *)

InvalidDefinitionError == [kind |-> "InvalidDefinitionError", message |-> <<>>]

CreateCollectionPrefix ==
    <<"c", "r", "e", "a", "t", "e", "_", "c", "o", "l", "l", "e", "c", "t", "i", "o", "n", "_">>

AddFieldPrefix == <<"a", "d", "d", "_", "f", "i", "e", "l", "d", "_">>

\* The empty migration: [ok, description, body].
createNewMigration(description) ==
    [ok |-> TRUE, description |-> description[1], body |-> EmptyBody]

createCollectionMigration(definition, description) ==
    IF Falsy(definition.name) \/ Falsy(definition.id)
    THEN [ok |-> FALSE, description |-> <<>>, body |-> EmptyBody]
    ELSE [ok |-> TRUE,
          description |-> IF description # UNDEFINED THEN description[1]
                          ELSE CreateCollectionPrefix \o definition.name[1],
          body |-> CollectionBody([id |-> definition.id[1],
                                   name |-> definition.name[1]])]

createAddFieldMigration(collectionNameOrId, definition, description) ==
    IF Falsy(collectionNameOrId) \/ Falsy(definition.name) \/ Falsy(definition.type)
    THEN [ok |-> FALSE, description |-> <<>>, body |-> EmptyBody]
    ELSE [ok |-> TRUE,
          description |-> IF description # UNDEFINED THEN description[1]
                          ELSE AddFieldPrefix \o definition.name[1] \o <<"_", "t", "o", "_">>
                               \o collectionNameOrId[1],
          body |-> FieldBody(collectionNameOrId[1], definition.name[1])]

\* writeFile: the entry of that name in that directory, replaced if there.
\* A write that empties the directory first.
WriteFileReplacing(fs, dir, name, body) ==
    {f \in fs : f.dir # dir} \cup {[dir |-> dir, name |-> name, body |-> body]}

WriteFile(fs, dir, name, body) ==
    {f \in fs : ~(f.dir = dir /\ f.name = name)}
        \cup {[dir |-> dir, name |-> name, body |-> body]}

----------------------------------------------------------------------------
(* The tool handlers (src/src/tools/collection-tools.ts, 223-351).         *)

invalidParamsError(text) == [kind |-> "InvalidParams", message |-> text]

\* The ToolResult of a handler that returns.
TextResult(text) == [ok |-> TRUE, content |-> text]

\* The outcome of a handler that throws.
Thrown(error) == [ok |-> FALSE, error |-> error]

\* `throw new Error(prefix + error.message)` with the message left out.
RethrowWithoutMessage(prefix, error) ==
    [kind |-> "Error", message |-> <<prefix>>]

\* `throw new Error(prefix + error.message)` in a handler's catch block.
Rethrow(prefix, error) ==
    [kind |-> "Error", message |-> <<prefix, error.message>>]

\* The call of setMigrationsDirectory with no argument.
customPathIgnored(args) == UNDEFINED

\* `args.customPath`, the argument handed to setMigrationsDirectory.
customPath(args) == args.customPath

\* A check of `name` alone.
CollectionDefinitionIncompleteNameOnly(args) == Falsy(args.collectionDefinition.name)

\* `!args.collectionDefinition.name || !args.collectionDefinition.id`
CollectionDefinitionIncomplete(args) ==
    Falsy(args.collectionDefinition.name) \/ Falsy(args.collectionDefinition.id)

\* The result of list_migrations with an empty listing taken for a failure.
ListOutcomeErrorOnEmpty(listed) ==
    IF Len(listed) = 0
    THEN Thrown([kind |-> "Error", message |-> <<"No migration files found.">>])
    ELSE TextResult(<<"Found migration files:", listed>>)

\* The result of list_migrations for the listing the engine returns.
ListOutcome(listed) ==
    IF Len(listed) = 0
    THEN TextResult(<<"No migration files found.", <<>>>>)
    ELSE TextResult(<<"Found migration files:", listed>>)

\* A catch block that returns the failure as the text of a normal result.
ApplyOutcomeSwallowing(r) ==
    IF r.ok THEN TextResult(r.value)
    ELSE TextResult(<<"Failed to apply migration: ", r.error.message>>)

\* The try/catch of apply_migration around the engine's result r.
ApplyOutcome(r) ==
    IF r.ok THEN TextResult(r.value)
    ELSE Thrown(Rethrow("Failed to apply migration: ", r.error))

\* A catch block that returns the failure as the text of a normal result.
RevertOutcomeSwallowing(r) ==
    IF r.ok THEN TextResult(r.value)
    ELSE TextResult(<<"Failed to revert migration: ", r.error.message>>)

\* The try/catch of revert_migration around the engine's result r.
RevertOutcome(r) ==
    IF r.ok THEN TextResult(r.value)
    ELSE Thrown(Rethrow("Failed to revert migration: ", r.error))

\* The applied list dropped: the engine is handed [].
ApplyAllAppliedIgnored(args) == <<>>

\* `args.appliedMigrations || []` in apply_all_migrations.
ApplyAllApplied(args) ==
    IF args.appliedMigrations = UNDEFINED THEN <<>> ELSE args.appliedMigrations[1]

\* The try/catch of apply_all_migrations around the engine's result r.
ApplyAllOutcome(r) ==
    IF ~r.ok THEN Thrown(Rethrow("Failed to apply migrations: ", r.error))
    ELSE IF Len(r.value) = 0 THEN TextResult(<<"No new migrations to apply.", <<>>>>)
    ELSE TextResult(<<"Applied migrations:", r.value>>)

\* `!args.targetMigration`, which also refuses the empty string.
TargetMissingOrEmpty(args) == Falsy(args.targetMigration)

\* `args.targetMigration === undefined`
TargetMissing(args) == args.targetMigration = UNDEFINED

\* The target dropped: the engine is handed "".
RevertToTargetIgnored(args) == <<>>

\* `args.targetMigration`, the first argument handed to revertToMigration.
RevertToTarget(args) == args.targetMigration[1]

\* `args.appliedMigrations || []` in revert_to_migration.
RevertToApplied(args) ==
    IF args.appliedMigrations = UNDEFINED THEN <<>> ELSE args.appliedMigrations[1]

\* The try/catch of revert_to_migration around the engine's result r.
RevertToOutcome(r) ==
    IF ~r.ok THEN Thrown(Rethrow("Failed to revert migrations: ", r.error))
    ELSE IF Len(r.value) = 0 THEN TextResult(<<"No migrations to revert.", <<>>>>)
    ELSE TextResult(<<"Reverted migrations:", r.value>>)

MigrationFiles(fs) == {f \in fs : IsMigrationFile(f.name)}

\* A handler that ends without touching the engine, the files or the backend.
Reject(tool, args, error) ==
    /\ last' = [tool |-> tool, args |-> args, thrown |-> <<>>, result |-> Thrown(error)]
    /\ calls' = <<>>
    /\ UNCHANGED <<migrationsDir, directories, files, lastKey, collections, requests, reply>>

\* The engine's write of a generated migration at the clock value read, and
\* the handler's result.
Create(tool, args, generated, text, clock) ==
    IF ~generated.ok
    THEN /\ last' = [tool |-> tool, args |-> args, thrown |-> <<InvalidDefinitionError>>,
                     result |-> Thrown(InvalidDefinitionError)]
         /\ calls' = <<>>
         /\ UNCHANGED <<migrationsDir, directories, files, lastKey, collections, requests, reply>>
    ELSE LET dir == getMigrationsDirectory(migrationsDir)
             key == NextKey(clock, lastKey)
             name == WithExt(FileName(key, Slug(generated.description)))
         IN /\ files' = WriteFile(files, dir, name, generated.body)
            /\ directories' = directories \cup {dir}
            /\ lastKey' = key
            /\ last' = [tool |-> tool, args |-> args, thrown |-> <<>>,
                        result |-> TextResult(<<text, dir, name>>)]
            /\ calls' = <<>>
            /\ UNCHANGED <<migrationsDir, collections, requests, reply>>

handleSetMigrationsDirectory(args) ==
    LET path == setMigrationsDirectory(customPath(args))
    IN /\ migrationsDir' = <<path>>
       /\ directories' = directories \cup {path}
       /\ last' = [tool |-> "set_migrations_directory", args |-> args, thrown |-> <<>>,
                   result |-> TextResult(<<"Migration directory set to: ", path>>)]
       /\ calls' = <<>>
       /\ UNCHANGED <<files, lastKey, collections, requests, reply>>

handleCreateMigration(args, clock) ==
    IF Falsy(args.description)
    THEN Reject("create_migration", args,
                invalidParamsError("Missing required argument: description"))
    ELSE Create("create_migration", args, createNewMigration(args.description),
                "Created new migration file: ", clock)

handleCreateCollectionMigration(args, clock) ==
    IF ~args.collectionDefinition.defined
    THEN Reject("create_collection_migration", args,
                invalidParamsError("Missing required argument: collectionDefinition"))
    ELSE IF CollectionDefinitionIncomplete(args)
    THEN Reject("create_collection_migration", args,
                invalidParamsError("collectionDefinition must include 'name' and 'id' properties."))
    ELSE Create("create_collection_migration", args,
                createCollectionMigration(args.collectionDefinition, args.description),
                "Created collection migration file: ", clock)

handleAddFieldMigration(args, clock) ==
    IF Falsy(args.collectionNameOrId)
    THEN Reject("add_field_migration", args,
                invalidParamsError("Missing required argument: collectionNameOrId"))
    ELSE IF ~args.fieldDefinition.defined
    THEN Reject("add_field_migration", args,
                invalidParamsError("Missing required argument: fieldDefinition"))
    ELSE IF Falsy(args.fieldDefinition.name) \/ Falsy(args.fieldDefinition.type)
    THEN Reject("add_field_migration", args,
                invalidParamsError("fieldDefinition must include 'name' and 'type' properties."))
    ELSE Create("add_field_migration", args,
                createAddFieldMigration(args.collectionNameOrId, args.fieldDefinition,
                                        args.description),
                "Created field migration file: ", clock)

\* The end of a handler that called the engine with result r.
EngineCall(tool, args, r, result) ==
    /\ directories' = directories \cup {getMigrationsDirectory(migrationsDir)}
    /\ collections' = r.cols
    /\ calls' = r.invoked
    /\ last' = [tool |-> tool, args |-> args,
                thrown |-> IF r.ok THEN <<>> ELSE <<r.error>>, result |-> result]
    /\ UNCHANGED <<migrationsDir, files, lastKey, requests, reply>>

handleListMigrations(enumeration) ==
    LET listed == listMigrations(enumeration)
        r == [ok |-> TRUE, value |-> listed, error |-> <<>>, cols |-> collections,
              invoked |-> <<>>]
    IN EngineCall("list_migrations", <<>>, r, ListOutcome(listed))

handleApplyMigration(args, broken) ==
    IF Falsy(args.migrationFile)
    THEN Reject("apply_migration", args,
                invalidParamsError("Missing required argument: migrationFile"))
    ELSE LET r == applyMigration(args.migrationFile[1],
                                 getMigrationsDirectory(migrationsDir),
                                 files, collections, broken)
         IN EngineCall("apply_migration", args, r, ApplyOutcome(r))

handleRevertMigration(args, broken) ==
    IF Falsy(args.migrationFile)
    THEN Reject("revert_migration", args,
                invalidParamsError("Missing required argument: migrationFile"))
    ELSE LET r == revertMigration(args.migrationFile[1],
                                  getMigrationsDirectory(migrationsDir),
                                  files, collections, broken)
         IN EngineCall("revert_migration", args, r, RevertOutcome(r))

handleApplyAllMigrations(args, enumeration, failAt) ==
    LET r == applyAllMigrations(enumeration, ApplyAllApplied(args),
                                getMigrationsDirectory(migrationsDir),
                                files, collections, failAt)
    IN EngineCall("apply_all_migrations", args, r, ApplyAllOutcome(r))

handleRevertToMigration(args, enumeration, failAt) ==
    IF TargetMissing(args)
    THEN Reject("revert_to_migration", args,
                invalidParamsError("Missing required argument: targetMigration"))
    ELSE LET r == revertToMigration(RevertToTarget(args), enumeration,
                                    RevertToApplied(args),
                                    getMigrationsDirectory(migrationsDir),
                                    files, collections, failAt)
         IN EngineCall("revert_to_migration", args, r, RevertToOutcome(r))

----------------------------------------------------------------------------
(* The environment: a file of another kind put into the default directory *)
(* from outside, and the clock.                                            *)

NoteName == <<0, 0, <<"n", "o", "t", "e", "s">>, "md">>

ExternalNote ==
    /\ DefaultDir \in directories
    /\ ~Exists(files, DefaultDir, NoteName)
    /\ files' = WriteFile(files, DefaultDir, NoteName, EmptyBody)
    /\ UNCHANGED <<migrationsDir, directories, lastKey, collections, calls, last, requests, reply>>

----------------------------------------------------------------------------
(* The arguments the tools are called with.                                *)

Posts == <<"p", "o", "s", "t", "s">>

Title == <<"t", "i", "t", "l", "e">>

CustomPaths == {UNDEFINED, Some(<<"migs">>), Some(Cwd \o <<"migs">>)}

NoObject == [defined |-> FALSE]

CollectionDefinitions ==
    {NoObject}
        \cup {[defined |-> TRUE, name |-> n, id |-> i] :
                n \in {UNDEFINED, Some(Posts)},
                i \in {UNDEFINED, Some(<<>>), Some(<<"c", "1">>)}}

FieldDefinitions ==
    {NoObject}
        \cup {[defined |-> TRUE, name |-> n, type |-> t] :
                n \in {UNDEFINED, Some(Title)},
                t \in {UNDEFINED, Some(<<"t", "e", "x", "t">>)}}

CollectionRefs == {UNDEFINED, Some(<<>>), Some(Posts)}

\* A file name no create tool produces.
Nonexistent == <<0, 0, <<"n", "o", "n", "e", "x", "i", "s", "t", "e", "n", "t">>, Ext>>

\* The migration file names a caller may know of: those written, and one more.
KnownNames == {f.name : f \in MigrationFiles(files)} \cup {Nonexistent}

FileArguments == {UNDEFINED, Some(<<>>)} \cup {Some(n) : n \in KnownNames}

\* The applied lists a caller hands in: none, one sequence for every set of
\* files written, and all of them with a name that no file has.
AppliedArguments ==
    {UNDEFINED}
        \cup {Some(SomeEnumeration(S)) : S \in SUBSET (KnownNames \ {Nonexistent})}
        \cup {Some(SomeEnumeration(KnownNames))}

\* The clock values a create tool may read: the one of the last key issued
\* (the clock has not advanced since) and the next.  Before any key is
\* issued the clock is past the initial value.
ClockReadings == {t \in {lastKey[1], lastKey[1] + 1} : t > 0}

ActiveEnumerations ==
    Enumerations(Entries(files, getMigrationsDirectory(migrationsDir)))

\* Two of those orders, one the reverse of the other.
TwoEnumerations ==
    LET e == SomeEnumeration(Entries(files, getMigrationsDirectory(migrationsDir)))
    IN {e, Reverse(e)}

NoCall == [tool |-> "none", args |-> <<>>, thrown |-> <<>>, result |-> TextResult(<<>>)]

\* No call has been answered.
NoReply == [answered |-> FALSE]

\* formatError(error): the error as a result marked isError, with its message.
formatError(error) ==
    [answered |-> TRUE, isError |-> TRUE, content |-> error.message]

\* A catch block that answers a thrown error with an empty result.
CallbackResultSwallowing(outcome) ==
    IF outcome.ok
    THEN [answered |-> TRUE, isError |-> FALSE, content |-> outcome.content]
    ELSE [answered |-> TRUE, isError |-> FALSE, content |-> <<>>]

\* `try { return await handleToolCall(...) } catch (error) { return
\* formatError(error) }` in the registered callback.
CallbackResult(outcome) ==
    IF outcome.ok
    THEN [answered |-> TRUE, isError |-> FALSE, content |-> outcome.content]
    ELSE formatError(outcome.error)

\* The registered callback returns the handler's result, or the error it
\* threw as formatError renders it (src/unnamed/part_000, 51-63).
Respond ==
    /\ last # NoCall
    /\ ~reply.answered
    /\ reply' = CallbackResult(last.result)
    /\ UNCHANGED <<migrationsDir, directories, files, lastKey, collections, calls,
                   last, requests>>

\* The caller has the answer; the server takes the next call.
Answered ==
    /\ reply.answered
    /\ last' = NoCall
    /\ calls' = <<>>
    /\ reply' = NoReply
    /\ UNCHANGED <<migrationsDir, directories, files, lastKey, collections, requests>>

\* The requests the server may be handling at the same time.
Slots == 1..MaxRequests

\* No request: the slot is free.
NoRequest ==
    [tool |-> "none", args |-> <<>>, direction |-> "none", dir |-> <<>>,
     batch |-> <<>>, running |-> {}, done |-> <<>>, error |-> <<>>]

Init ==
    /\ requests = [s \in Slots |-> NoRequest]
    /\ reply = NoReply
    /\ migrationsDir = <<>>
    /\ directories = {}
    /\ files = {}
    /\ lastKey = <<0, 0>>
    /\ collections = {}
    /\ calls = <<>>
    /\ last = NoCall

ValidDescription == Some(<<"A", "d", "d", " ", "P", "!">>)

Descriptions == {UNDEFINED, Some(<<>>), ValidDescription}

OptionalDescriptions == {UNDEFINED, ValidDescription}

\* The server takes a call when it is answering none.
Idle == last = NoCall

\* The cap on the files written in one behaviour.
Within(bound) == Cardinality(MigrationFiles(files')) <= bound

ValidCollection ==
    [defined |-> TRUE, name |-> Some(Posts), id |-> Some(<<"c", "1">>)]

ValidField ==
    [defined |-> TRUE, name |-> Some(Title), type |-> Some(<<"t", "e", "x", "t">>)]

\* Every tool, with arguments present, empty and missing.
Next ==
    \/ \E p \in CustomPaths :
        Idle /\ handleSetMigrationsDirectory([customPath |-> p])
    \/ \E d \in Descriptions, t \in ClockReadings :
        Idle /\ handleCreateMigration([description |-> d], t) /\ Within(MaxFiles)
    \/ \E d \in OptionalDescriptions, c \in CollectionDefinitions, t \in ClockReadings :
        /\ Idle
        /\ handleCreateCollectionMigration([description |-> d,
                                            collectionDefinition |-> c], t)
        /\ Within(MaxFiles)
    \/ \E c \in CollectionRefs, f \in FieldDefinitions, t \in ClockReadings :
        /\ Idle
        /\ handleAddFieldMigration([description |-> UNDEFINED,
                                    collectionNameOrId |-> c, fieldDefinition |-> f], t)
        /\ Within(MaxFiles)
    \/ \E e \in ActiveEnumerations : Idle /\ handleListMigrations(e)
    \/ \E m \in FileArguments, broken \in BOOLEAN :
        Idle /\ handleApplyMigration([migrationFile |-> m], broken)
    \/ \E m \in FileArguments, broken \in BOOLEAN :
        Idle /\ handleRevertMigration([migrationFile |-> m], broken)
    \/ \E a \in AppliedArguments, e \in TwoEnumerations, k \in 0..MaxFiles :
        Idle /\ handleApplyAllMigrations([appliedMigrations |-> a], e, k)
    \/ \E t \in FileArguments, a \in AppliedArguments, e \in TwoEnumerations,
          k \in 0..MaxFiles :
        /\ Idle
        /\ handleRevertToMigration([targetMigration |-> t, appliedMigrations |-> a],
                                   e, k)
    \/ Respond
    \/ Answered

Spec == Init /\ [][Next]_vars

\* The create tools called with complete arguments, a file put into the
\* directory from outside, and the listing.
NextStore ==
    \/ \E t \in ClockReadings :
        Idle /\ handleCreateMigration([description |-> ValidDescription], t)
             /\ Within(MaxListed)
    \/ \E d \in OptionalDescriptions, t \in ClockReadings :
        /\ Idle
        /\ handleCreateCollectionMigration([description |-> d,
                                            collectionDefinition |-> ValidCollection], t)
        /\ Within(MaxListed)
    \/ \E d \in OptionalDescriptions, t \in ClockReadings :
        /\ Idle
        /\ handleAddFieldMigration([description |-> d,
                                    collectionNameOrId |-> Some(Posts),
                                    fieldDefinition |-> ValidField], t)
        /\ Within(MaxListed)
    \/ \E e \in ActiveEnumerations : Idle /\ handleListMigrations(e)
    \/ Idle /\ ExternalNote
    \/ Respond
    \/ Answered

\* Files created and listed in the default directory, up to MaxListed of them.
SpecStore == Init /\ [][NextStore]_vars

\* Plain and collection migrations created with complete arguments, and the
\* tools that apply and revert, in the default directory.
NextLifecycle ==
    \/ \E t \in ClockReadings :
        Idle /\ handleCreateMigration([description |-> ValidDescription], t)
             /\ Within(MaxBatch)
    \/ \E t \in ClockReadings :
        /\ Idle
        /\ handleCreateCollectionMigration([description |-> UNDEFINED,
                                            collectionDefinition |-> ValidCollection], t)
        /\ Within(MaxBatch)
    \/ \E m \in FileArguments, broken \in BOOLEAN :
        Idle /\ handleApplyMigration([migrationFile |-> m], broken)
    \/ \E m \in FileArguments, broken \in BOOLEAN :
        Idle /\ handleRevertMigration([migrationFile |-> m], broken)
    \/ \E a \in AppliedArguments, e \in TwoEnumerations, k \in 0..MaxBatch :
        Idle /\ handleApplyAllMigrations([appliedMigrations |-> a], e, k)
    \/ \E t \in FileArguments, a \in AppliedArguments, e \in TwoEnumerations,
          k \in 0..MaxBatch :
        /\ Idle
        /\ handleRevertToMigration([targetMigration |-> t, appliedMigrations |-> a],
                                   e, k)
    \/ Respond
    \/ Answered

\* Files created, applied and reverted in the default directory, up to
\* MaxBatch of them.
SpecLifecycle == Init /\ [][NextLifecycle]_vars

\* The applied lists of SpecFiles and SpecConcurrent: none, and every file
\* written.
AllOrNone == {UNDEFINED, Some(SomeEnumeration(KnownNames \ {Nonexistent}))}

\* Every tool, called with complete arguments, in either directory.
NextFiles ==
    \/ \E p \in CustomPaths :
        Idle /\ handleSetMigrationsDirectory([customPath |-> p])
    \/ \E t \in ClockReadings :
        Idle /\ handleCreateMigration([description |-> ValidDescription], t)
             /\ Within(MaxKept)
    \/ \E t \in ClockReadings :
        /\ Idle
        /\ handleCreateCollectionMigration([description |-> UNDEFINED,
                                            collectionDefinition |-> ValidCollection], t)
        /\ Within(MaxKept)
    \/ \E t \in ClockReadings :
        /\ Idle
        /\ handleAddFieldMigration([description |-> UNDEFINED,
                                    collectionNameOrId |-> Some(Posts),
                                    fieldDefinition |-> ValidField], t)
        /\ Within(MaxKept)
    \/ \E e \in ActiveEnumerations : Idle /\ handleListMigrations(e)
    \/ \E m \in FileArguments, broken \in BOOLEAN :
        Idle /\ handleApplyMigration([migrationFile |-> m], broken)
    \/ \E m \in FileArguments, broken \in BOOLEAN :
        Idle /\ handleRevertMigration([migrationFile |-> m], broken)
    \/ \E a \in AllOrNone, e \in TwoEnumerations, k \in 0..1 :
        Idle /\ handleApplyAllMigrations([appliedMigrations |-> a], e, k)
    \/ \E t \in FileArguments, a \in AllOrNone, e \in TwoEnumerations, k \in 0..1 :
        /\ Idle
        /\ handleRevertToMigration([targetMigration |-> t, appliedMigrations |-> a],
                                   e, k)
    \/ Respond
    \/ Answered

\* Files created in either directory, up to MaxKept of them, and every tool
\* that reads them.
SpecFiles == Init /\ [][NextFiles]_vars

----------------------------------------------------------------------------
(* Requests handled at the same time.  POST /mcp (src/unnamed/part_000,    *)
(* 111-139) runs an async callback per request, and the registered         *)
(* callback (51-63) awaits the handler, which awaits the engine            *)
(* (collection-tools.ts 287, 302, 314, 337); the engine awaits the backend *)
(* for each up/down.  While one request is suspended the server takes the  *)
(* next.  A request in the engine is                                       *)
(* [tool, args, direction, dir, batch, running, done, error]: the          *)
(* migrations still to run, those whose up/down is in flight, those done,  *)
(* and the failure met.                                                    *)

\* A request that the engine starts to work on.
Suspended(tool, args, direction, batch) ==
    [tool |-> tool, args |-> args, direction |-> direction,
     dir |-> getMigrationsDirectory(migrationsDir),
     batch |-> batch, running |-> {}, done |-> <<>>, error |-> <<>>]

\* A request that fails before any up/down.
Failing(tool, args, error) ==
    [Suspended(tool, args, "none", <<>>) EXCEPT !.error = <<error>>]

\* The server takes a request while slot is free; the handler runs up to its
\* await of the engine.
Accept(slot, request) ==
    /\ requests[slot] = NoRequest
    /\ requests' = [requests EXCEPT ![slot] = request]
    /\ directories' = directories \cup {getMigrationsDirectory(migrationsDir)}
    /\ UNCHANGED <<migrationsDir, files, lastKey, collections, calls, last, reply>>

\* apply_migration and revert_migration up to the engine's first up/down.
AcceptOne(slot, tool, direction, args) ==
    Accept(slot,
           IF Falsy(args.migrationFile)
           THEN Failing(tool, args,
                        invalidParamsError("Missing required argument: migrationFile"))
           ELSE IF ~Exists(files, getMigrationsDirectory(migrationsDir),
                           args.migrationFile[1])
           THEN Failing(tool, args, NotFoundError(args.migrationFile[1]))
           ELSE Suspended(tool, args, direction, <<args.migrationFile[1]>>))

\* apply_all_migrations up to the engine's first up.
AcceptApplyAll(slot, args, enumeration) ==
    Accept(slot, Suspended("apply_all_migrations", args, "up",
                           Pending(enumeration, ApplyAllApplied(args))))

\* revert_to_migration up to the engine's first down.
AcceptRevertTo(slot, args, enumeration) ==
    Accept(slot,
           IF TargetMissing(args)
           THEN Failing("revert_to_migration", args,
                        invalidParamsError("Missing required argument: targetMigration"))
           ELSE IF TargetAbsent(RevertToTarget(args), enumeration)
           THEN Failing("revert_to_migration", args,
                        NotFoundError(RevertToTarget(args)))
           ELSE Suspended("revert_to_migration", args, "down",
                          Above(RevertToTarget(args), enumeration,
                                RevertToApplied(args))))

\* The engine's batch loop awaits each up/down before it starts the next.
CanStart(request) == request.batch # <<>> /\ request.running = {}

\* The engine sends the up/down of the next migration of the batch.
StartOperation(slot) ==
    LET r == requests[slot]
    IN /\ CanStart(r)
       /\ requests' = [requests EXCEPT ![slot] =
                          [r EXCEPT !.batch = Tail(r.batch),
                                    !.running = r.running \cup {Head(r.batch)}]]
       /\ UNCHANGED <<migrationsDir, directories, files, lastKey, collections,
                      calls, last, reply>>

\* The backend answers an up/down in flight; a failure ends the batch.
CompleteOperation(slot, name, broken) ==
    LET r == requests[slot]
        answer == Invoke(r.direction, BodyOf(files, r.dir, name), collections, broken)
    IN /\ name \in r.running
       /\ collections' = answer.cols
       /\ requests' = [requests EXCEPT ![slot] =
              IF answer.ok
              THEN [r EXCEPT !.running = r.running \ {name},
                             !.done = Append(r.done, name)]
              ELSE [r EXCEPT !.running = r.running \ {name},
                             !.batch = <<>>,
                             !.error = <<MigrationExecutionError(r.direction, name,
                                                                 r.done)>>]]
       /\ UNCHANGED <<migrationsDir, directories, files, lastKey, calls, last, reply>>

\* The engine returns or throws, the handler builds its result or rethrows,
\* and the registered callback answers the request.
Reply(slot) ==
    LET r == requests[slot]
    IN /\ r # NoRequest
       /\ r.batch = <<>>
       /\ r.running = {}
       /\ requests' = [requests EXCEPT ![slot] = NoRequest]
       /\ UNCHANGED <<migrationsDir, directories, files, lastKey, collections,
                      calls, last, reply>>

\* Plain and collection migrations created with complete arguments, and
\* requests to apply and revert handled at the same time.
NextConcurrent ==
    \/ \E t \in ClockReadings :
        Idle /\ handleCreateMigration([description |-> ValidDescription], t)
             /\ Within(MaxQueued)
    \/ \E t \in ClockReadings :
        /\ Idle
        /\ handleCreateCollectionMigration([description |-> UNDEFINED,
                                            collectionDefinition |-> ValidCollection], t)
        /\ Within(MaxQueued)
    \/ Respond
    \/ Answered
    \/ \E s \in Slots, m \in FileArguments :
        AcceptOne(s, "apply_migration", "up", [migrationFile |-> m])
    \/ \E s \in Slots, m \in FileArguments :
        AcceptOne(s, "revert_migration", "down", [migrationFile |-> m])
    \/ \E s \in Slots, a \in AllOrNone, e \in TwoEnumerations :
        AcceptApplyAll(s, [appliedMigrations |-> a], e)
    \/ \E s \in Slots, t \in FileArguments, a \in AllOrNone, e \in TwoEnumerations :
        AcceptRevertTo(s, [targetMigration |-> t, appliedMigrations |-> a], e)
    \/ \E s \in Slots : StartOperation(s)
    \/ \E s \in Slots, n \in KnownNames, broken \in BOOLEAN :
        CompleteOperation(s, n, broken)
    \/ \E s \in Slots : Reply(s)

\* Up to MaxRequests requests handled at the same time over up to MaxQueued
\* files of the default directory.
SpecConcurrent == Init /\ [][NextConcurrent]_vars

----------------------------------------------------------------------------
(* What the properties below speak of.                                     *)

\* The directory the migration operations work in.
ActiveDirectory ==
    IF migrationsDir = <<>> THEN <<"", "cwd", "pb_migrations">> ELSE migrationsDir[1]

\* The names of the migration files of a directory.
MigrationNamesIn(fs, dir) ==
    {f.name : f \in {g \in fs : g.dir = dir /\ g.name[Len(g.name)] = "js"}}

Ascending(s) ==
    \A i, j \in DOMAIN s : i < j => KeyLess(KeyOf(s[i]), KeyOf(s[j]))

Descending(s) ==
    \A i, j \in DOMAIN s : i < j => KeyLess(KeyOf(s[j]), KeyOf(s[i]))

\* s holds every element of S exactly once.
Lists(s, S) == Len(s) = Cardinality(S) /\ Range(s) = S

\* The appliedSet a batch call was given.
GivenApplied(args) ==
    IF args.appliedMigrations = UNDEFINED THEN {}
    ELSE Range(args.appliedMigrations[1])

\* The files a sequence of invocations names.
NamesOf(invocations) == [i \in DOMAIN invocations |-> invocations[i][1]]

BatchTools == {"apply_all_migrations", "revert_to_migration"}

CreateTools == {"create_migration", "create_collection_migration", "add_field_migration"}

\* A handler's outcome is the invalid-argument error.
IsInvalidParams(l) == ~l.result.ok /\ l.result.error.kind = "InvalidParams"

\* The engine raised an error of that kind.
Raised(l, kind) == l.thrown # <<>> /\ l.thrown[1].kind = kind

----------------------------------------------------------------------------
(* C1: a successful applyAll invokes `up` on exactly the files of list()   *)
(* that are not in appliedSet, in ascending ordering-key order, and        *)
(* returns those names in that order (none when nothing is pending); no    *)
(* file named in appliedSet is applied, whether or not the call succeeds.  *)
C1_ApplyAllAppliesPending ==
    last.tool = "apply_all_migrations" =>
        LET applied == GivenApplied(last.args)
            pending == MigrationNamesIn(files, ActiveDirectory) \ applied
            ups == NamesOf(calls)
        IN /\ \A i \in DOMAIN calls : calls[i][2] = "up" /\ calls[i][1] \notin applied
           /\ last.result.ok =>
                /\ Lists(ups, pending)
                /\ Ascending(ups)
                /\ last.result.content[2] = ups

\* applyAll given one file of the directory as applied has applied two others.
C1_Witness ==
    /\ last.tool = "apply_all_migrations"
    /\ last.result.ok
    /\ Len(calls) = 2
    /\ GivenApplied(last.args) \cap MigrationNamesIn(files, ActiveDirectory) # {}

(* C2: with a non-empty target that is in the directory, revertToMigration *)
(* invokes `down` only on candidates (entries of appliedSet in the         *)
(* directory) of a key strictly above the target's, in strictly descending *)
(* key order, never on the target or a file of a smaller key; when it      *)
(* succeeds it has reverted all of them and returns them in that order.    *)
C2_RevertToTargetExclusive ==
    (/\ last.tool = "revert_to_migration"
     /\ ~Falsy(last.args.targetMigration)
     /\ last.args.targetMigration[1] \in MigrationNamesIn(files, ActiveDirectory)) =>
        LET target == last.args.targetMigration[1]
            candidates == GivenApplied(last.args)
                              \cap MigrationNamesIn(files, ActiveDirectory)
            above == {n \in candidates : KeyLess(KeyOf(target), KeyOf(n))}
            downs == NamesOf(calls)
        IN /\ \A i \in DOMAIN calls : calls[i][2] = "down" /\ calls[i][1] \in above
           /\ Descending(downs)
           /\ last.result.ok => Lists(downs, above) /\ last.result.content[2] = downs

\* A revert to an applied target that has reverted the two files above it.
C2_Witness ==
    /\ last.tool = "revert_to_migration"
    /\ last.result.ok
    /\ ~Falsy(last.args.targetMigration)
    /\ last.args.targetMigration[1] \in GivenApplied(last.args)
    /\ last.args.targetMigration[1] \in MigrationNamesIn(files, ActiveDirectory)
    /\ Len(calls) = 2

(* C3: revertToMigration with the target "" is not refused for a missing   *)
(* argument; it invokes `down` only on entries of appliedSet that are in   *)
(* the directory, in strictly descending key order, and when it succeeds   *)
(* it has reverted every one of them exactly once and returns them in that *)
(* order.                                                                  *)
C3_RevertAllOnEmptyTarget ==
    (last.tool = "revert_to_migration" /\ last.args.targetMigration = Some(<<>>)) =>
        LET candidates == GivenApplied(last.args)
                              \cap MigrationNamesIn(files, ActiveDirectory)
            downs == NamesOf(calls)
        IN /\ ~IsInvalidParams(last)
           /\ \A i \in DOMAIN calls : calls[i][2] = "down" /\ calls[i][1] \in candidates
           /\ Descending(downs)
           /\ last.result.ok => Lists(downs, candidates) /\ last.result.content[2] = downs

\* A revert of everything that has reverted three files.
C3_Witness ==
    /\ last.tool = "revert_to_migration"
    /\ last.args.targetMigration = Some(<<>>)
    /\ last.result.ok
    /\ Len(calls) = 3

\* The ascending sequence of a set of file names with distinct keys.
AscendingSeq(S) == CHOOSE e \in Enumerations(S) : Ascending(e)

\* The batch a call of apply_all_migrations or revert_to_migration is to run.
BatchOf(l, fs, dir) ==
    LET names == MigrationNamesIn(fs, dir)
        applied == GivenApplied(l.args)
    IN IF l.tool = "apply_all_migrations" THEN AscendingSeq(names \ applied)
       ELSE IF l.args.targetMigration = Some(<<>>)
       THEN Reverse(AscendingSeq(names \cap applied))
       ELSE Reverse(AscendingSeq(
                {n \in names \cap applied :
                    KeyLess(KeyOf(l.args.targetMigration[1]), KeyOf(n))}))

DirectionOf(l) == IF l.tool = "apply_all_migrations" THEN "up" ELSE "down"

\* The backend after the migrations of `names` have run one after the other.
RECURSIVE Effects(_, _, _, _, _)
Effects(direction, names, fs, dir, cols) ==
    IF names = <<>> THEN cols
    ELSE Effects(direction, Tail(names), fs, dir,
                 Invoke(direction, BodyOf(fs, dir, Head(names)), cols, FALSE).cols)

(* C4: when the up/down of the k-th migration of an applyAll or            *)
(* revertToMigration batch fails, the k invocations made are those of the  *)
(* first k migrations of the batch and none follows, the backend is left   *)
(* with the effects of the k-1 migrations already processed, and the call  *)
(* fails with an error that names the failing file and those k-1 names.    *)
C4_BatchStopsAtFailure ==
    [][(/\ last'.tool \in BatchTools
        /\ Raised(last', "MigrationExecutionError")) =>
          LET e == last'.thrown[1].message
              k == Len(calls')
              batch == BatchOf(last', files, ActiveDirectory)
          IN /\ k >= 1 /\ k <= Len(batch)
             /\ \A i \in 1..k : calls'[i] = <<batch[i], DirectionOf(last')>>
             /\ e.file = batch[k]
             /\ e.processed = SubSeq(batch, 1, k - 1)
             /\ collections' = Effects(DirectionOf(last'), e.processed, files,
                                       ActiveDirectory, collections)
             /\ ~last'.result.ok
             /\ Len(last'.result.error.message) = 2
             /\ last'.result.error.message[2] = e]_vars

\* An applyAll that failed at its second migration, the first one's collection kept.
C4_Witness ==
    /\ last.tool = "apply_all_migrations"
    /\ Raised(last, "MigrationExecutionError")
    /\ Len(calls) = 2
    /\ Len(last.thrown[1].message.processed) = 1
    /\ BodyOf(files, ActiveDirectory, calls[1][1]).kind = "collection"
    /\ collections # {}

\* apply or revert of a name that is not in the active directory, or
\* revertToMigration with a non-empty target that is not in its listing.
AbsentFile(l, fs, dir) ==
    \/ /\ l.tool \in {"apply_migration", "revert_migration"}
       /\ ~Falsy(l.args.migrationFile)
       /\ l.args.migrationFile[1] \notin Entries(fs, dir)
    \/ /\ l.tool = "revert_to_migration"
       /\ ~Falsy(l.args.targetMigration)
       /\ l.args.targetMigration[1] \notin MigrationNamesIn(fs, dir)

NamedFile(l) ==
    IF l.tool = "revert_to_migration" THEN l.args.targetMigration[1]
    ELSE l.args.migrationFile[1]

(* C5: apply or revert of a file name that is not in the active directory, *)
(* and revertToMigration with a non-empty target that is not in the        *)
(* listing, raise NotFoundError for that name, which the handler passes on *)
(* as a failure; no up or down is invoked and the backend and the files    *)
(* are as they were.                                                       *)
C5_AbsentFileNotFound ==
    [][AbsentFile(last', files, ActiveDirectory) =>
          /\ last'.thrown = <<NotFoundError(NamedFile(last'))>>
          /\ ~last'.result.ok
          /\ calls' = <<>>
          /\ collections' = collections
          /\ files' = files]_vars

\* A revert, refused as not found, of a file that another directory holds,
\* with a collection on the backend.
C5_Witness ==
    /\ last.tool = "revert_migration"
    /\ Raised(last, "NotFoundError")
    /\ \E f \in files : f.name = last.args.migrationFile[1] /\ f.dir # ActiveDirectory
    /\ collections # {}
    /\ calls = <<>>

C7_ListSortedAscending ==
    last.tool = "list_migrations" =>
        /\ last.result.ok
        /\ Lists(last.result.content[2], MigrationNamesIn(files, ActiveDirectory))
        /\ Ascending(last.result.content[2])
        /\ MigrationNamesIn(files, ActiveDirectory) = {} => last.result.content[2] = <<>>

\* A listing of three migration files from a directory that holds another file too.
C7_Witness ==
    /\ last.tool = "list_migrations"
    /\ last.result.ok
    /\ Len(last.result.content[2]) = 3
    /\ Exists(files, ActiveDirectory, NoteName)

\* A required argument of a create, apply or revert tool is missing or empty.
MissingRequired(l) ==
    \/ l.tool = "create_migration" /\ Falsy(l.args.description)
    \/ /\ l.tool = "create_collection_migration"
       /\ \/ ~l.args.collectionDefinition.defined
          \/ Falsy(l.args.collectionDefinition.name)
          \/ Falsy(l.args.collectionDefinition.id)
    \/ /\ l.tool = "add_field_migration"
       /\ \/ Falsy(l.args.collectionNameOrId)
          \/ ~l.args.fieldDefinition.defined
          \/ Falsy(l.args.fieldDefinition.name)
          \/ Falsy(l.args.fieldDefinition.type)
    \/ /\ l.tool \in {"apply_migration", "revert_migration"}
       /\ Falsy(l.args.migrationFile)

(* C8: a create, apply or revert tool called with a required argument      *)
(* missing or empty ends with the invalid-argument error, and the engine   *)
(* was not reached: no file is written, no directory created, no up or     *)
(* down invoked, and the backend is as it was.                             *)
C8_InvalidArgumentsRejected ==
    [][(last = NoCall /\ MissingRequired(last')) =>
          /\ IsInvalidParams(last')
          /\ last'.thrown = <<>>
          /\ calls' = <<>>
          /\ files' = files
          /\ directories' = directories
          /\ collections' = collections
          /\ lastKey' = lastKey]_vars

\* A collection migration asked for with a name and no id, refused.
C8_Witness ==
    /\ last.tool = "create_collection_migration"
    /\ last.args.collectionDefinition.defined
    /\ ~Falsy(last.args.collectionDefinition.name)
    /\ last.args.collectionDefinition.id = UNDEFINED
    /\ IsInvalidParams(last)

\* The file a call of apply_migration or revert_migration names is a
\* collection migration of the directory.
OfCollectionMigration(l, fs, dir) ==
    /\ ~Falsy(l.args.migrationFile)
    /\ Exists(fs, dir, l.args.migrationFile[1])
    /\ BodyOf(fs, dir, l.args.migrationFile[1]).kind = "collection"

(* C9: when apply_migration of a file written by the collection generator  *)
(* succeeds, its `up` has created the collection of the definition's id,   *)
(* and reverting the file then (`down` deletes the collection by that id)  *)
(* succeeds and leaves the backend's collections as they were before the   *)
(* apply.                                                                  *)
C9_ApplyThenRevertRestores ==
    [][(/\ last = NoCall
        /\ last'.tool = "apply_migration"
        /\ last'.result.ok
        /\ OfCollectionMigration(last', files, ActiveDirectory)) =>
          LET file == last'.args.migrationFile[1]
              definition == BodyOf(files, ActiveDirectory, file).definition
              reverted == revertMigration(file, ActiveDirectory, files', collections',
                                          FALSE)
          IN /\ \E c \in collections' \ collections : c.id = definition.id
             /\ reverted.ok
             /\ reverted.invoked = <<<<file, "down">>>>
             /\ reverted.cols = collections]_vars

\* A collection migration reverted after its apply: the collection is gone again.
C9_Witness ==
    /\ last.tool = "revert_migration"
    /\ last.result.ok
    /\ OfCollectionMigration(last, files, ActiveDirectory)
    /\ collections = {}

\* The absolute form of a path.
AbsoluteOf(path) == IF path[1] = "" THEN path ELSE <<"", "cwd">> \o path

\* The directory a call of set_migrations_directory asks for.
Requested(args) ==
    IF args.customPath = UNDEFINED THEN <<"", "cwd", "pb_migrations">>
    ELSE AbsoluteOf(args.customPath[1])

(* C10: a set call makes the directory it was given, in absolute form, the *)
(* active directory, or the default <cwd>/pb_migrations when it was given  *)
(* no customPath, and leaves the state as it is when that directory is the *)
(* one already set; no other step changes the active directory; a create   *)
(* tool writes its file into the active directory, and list reports the    *)
(* files of the active directory.                                          *)
C10_LastSetDirectoryWins ==
    [][IF last = NoCall /\ last'.tool = "set_migrations_directory"
       THEN /\ migrationsDir' = <<Requested(last'.args)>>
            /\ getMigrationsDirectory(migrationsDir') = Requested(last'.args)
            /\ migrationsDir = <<Requested(last'.args)>> =>
                 UNCHANGED <<migrationsDir, directories, files, lastKey, collections>>
       ELSE /\ migrationsDir' = migrationsDir
            /\ (last = NoCall /\ last'.tool \in CreateTools /\ last'.result.ok) =>
                 /\ last'.result.content[2] = ActiveDirectory
                 /\ files' \ files # {}
                 /\ \A f \in files' \ files : f.dir = ActiveDirectory
            /\ (last = NoCall /\ last'.tool = "list_migrations") =>
                 Range(last'.result.content[2])
                     = MigrationNamesIn(files, ActiveDirectory)]_vars

\* Back in the default directory by a set call without a path, after files
\* were written into the directory of an earlier set call.
C10_Witness ==
    /\ last.tool = "set_migrations_directory"
    /\ last.args.customPath = UNDEFINED
    /\ migrationsDir = <<DefaultDir>>
    /\ \E f \in files : f.dir = <<"", "cwd", "migs">>

\* The up/down operations in flight, by request.
InFlight == {<<s, n>> \in Slots \X KnownNames : n \in requests[s].running}

\* C11: no two migration up/down operations are ever in flight at the same
\* time, whichever requests they belong to; in particular each operation of
\* an apply_all_migrations or revert_to_migration batch ends before the next
\* of the batch starts.
C11_NoTwoOperationsInFlight == Cardinality(InFlight) <= 1

\* The part of C11 that speaks of one batch: a request never has two up/down
\* operations in flight.
OneOperationPerRequest == \A s \in Slots : Cardinality(requests[s].running) <= 1

\* A batch of two, the second migration waiting while the first is in flight.
BatchWaits ==
    \E s \in Slots :
        /\ requests[s].tool \in BatchTools
        /\ requests[s].running # {}
        /\ requests[s].batch # <<>>

----------------------------------------------------------------------------
----------------------------------------------------------------------------
(* C13: every failure raised while a tool call is handled reaches the      *)
(* caller as an error result.  When the engine raises, the handler's       *)
(* outcome is a throw, never a result; for apply, revert, apply_all and    *)
(* revert_to the error thrown is the 'Failed to ...' prefix followed by    *)
(* the engine's message; and for every throw of a handler the registered   *)
(* callback returns a result marked isError that carries the message.      *)

\* The tools whose handlers catch and rethrow.
RethrowingTools ==
    {"apply_migration", "revert_migration", "apply_all_migrations",
     "revert_to_migration"}

FailedPrefix(tool) ==
    CASE tool = "apply_migration" -> "Failed to apply migration: "
      [] tool = "revert_migration" -> "Failed to revert migration: "
      [] tool = "apply_all_migrations" -> "Failed to apply migrations: "
      [] tool = "revert_to_migration" -> "Failed to revert migrations: "

C13_FailuresReachCaller ==
    reply.answered =>
        /\ last.thrown # <<>> => ~last.result.ok
        /\ last.thrown # <<>> /\ last.tool \in RethrowingTools =>
                /\ last.result.error.kind = "Error"
                /\ last.result.error.message
                       = <<FailedPrefix(last.tool), last.thrown[1].message>>
        /\ ~last.result.ok =>
                /\ reply.isError
                /\ reply.content = last.result.error.message
        /\ last.result.ok => ~reply.isError

\* A batch that failed at an up, answered with an error result.
C13_Witness ==
    /\ reply.answered
    /\ reply.isError
    /\ last.tool = "apply_all_migrations"
    /\ Raised(last, "MigrationExecutionError")

====
